---- MODULE Spec2Model ----
(***************************************************************************)
(* Model of the phishing feature extractor: the two feature extractors     *)
(* (extract_general_features, extract_contentinfo_features) as operators   *)
(* over JSON values, and the batch aggregator of orchestrator.py           *)
(* (safe_call, load_json_file, build_global_dataframe) as a state machine. *)
(*                                                                         *)
(* Python strings are sequences of one-character strings, Python dicts are *)
(* functions from key names to values, and a JSON value is a record tagged *)
(* with its Python type after json.loads.  JSON numbers are integers here. *)
(***************************************************************************)
EXTENDS Integers, Sequences, FiniteSets, TLC

VARIABLES
    gdata,      \* argument handed to extract_general_features (harness)
    gres,       \* its outcome: not called yet, raised, or returned
    cdata,      \* argument handed to extract_contentinfo_features (harness)
    cres,       \* its outcome
    fs,         \* the two category folders: exists flag and directory listing
    pc,         \* position inside build_global_dataframe
    cat,        \* index into categories (1 = benign, 2 = malicious)
    files,      \* the filtered listing of the current folder
    idx,        \* index of the current file in files
    data,       \* what load_json_file returned for the current file
    row,        \* the row being built for the current record
    outs,       \* per extractor: the raw outcome of func(arg) for this record
    calls,      \* extractors called so far for the current record, in order
    visited,    \* every (category, filename) handed to load_json_file, in order
    data_rows,  \* the list of rows appended so far
    df          \* the returned table and the printed summary, once built

vars == <<gdata, gres, cdata, cres, fs, pc, cat, files, idx, data, row, outs,
          calls, visited, data_rows, df>>

----------------------------------------------------------------------------
(* Bounds of the model.                                                    *)

\* longest url enumerated exhaustively over UrlAlphabet
MaxUrlLen == 3
\* most directory entries in the two category folders together
MaxFiles == 3
\* content_status values run from -StatusBelow to StatusAbove
StatusBelow == 2
StatusAbove == 601

----------------------------------------------------------------------------
(* Python str operations on sequences of characters.                       *)

Digits == {"0", "1", "2", "3", "4", "5", "6", "7", "8", "9"}
LowerLetters == {"a", "b", "c", "d", "e", "f", "g", "h", "i", "j", "k", "l", "m",
                 "n", "o", "p", "q", "r", "s", "t", "u", "v", "w", "x", "y", "z"}
UpperLetters == {"A", "B", "C", "D", "E", "F", "G", "H", "I", "J", "K", "L", "M",
                 "N", "O", "P", "Q", "R", "S", "T", "U", "V", "W", "X", "Y", "Z"}
Letters == LowerLetters \cup UpperLetters
AlphaNum == Letters \cup Digits
UpperSeq == <<"A", "B", "C", "D", "E", "F", "G", "H", "I", "J", "K", "L", "M",
              "N", "O", "P", "Q", "R", "S", "T", "U", "V", "W", "X", "Y", "Z">>
LowerSeq == <<"a", "b", "c", "d", "e", "f", "g", "h", "i", "j", "k", "l", "m",
              "n", "o", "p", "q", "r", "s", "t", "u", "v", "w", "x", "y", "z">>

MinOf(S) == CHOOSE m \in S : \A k \in S : m <= k
MaxOf(S) == CHOOSE m \in S : \A k \in S : m >= k

\* c.lower() for one character
LowerChar(c) ==
    IF c \in UpperLetters
    THEN LowerSeq[CHOOSE i \in 1..26 : UpperSeq[i] = c]
    ELSE c

\* s.lower()
Lower(s) == [i \in 1..Len(s) |-> LowerChar(s[i])]

\* s[i-1:] in Python terms: the suffix starting at 1-based position i
From(s, i) == SubSeq(s, i, Len(s))

\* True iff sub occurs in s at 1-based position i
OccursAt(s, sub, i) ==
    /\ i >= 1
    /\ i + Len(sub) - 1 <= Len(s)
    /\ SubSeq(s, i, i + Len(sub) - 1) = sub

\* s.find(sub, start-1) + 1: the first position >= start where sub occurs, 0 if none
Find(s, sub, start) ==
    LET hits == {i \in start..(Len(s) + 1) : OccursAt(s, sub, i)}
    IN  IF hits = {} THEN 0 ELSE MinOf(hits)

\* s.rfind(sub) + 1
RFind(s, sub) ==
    LET hits == {i \in 1..(Len(s) + 1) : OccursAt(s, sub, i)}
    IN  IF hits = {} THEN 0 ELSE MaxOf(hits)

\* sub in s
Contains(s, sub) == Find(s, sub, 1) # 0

\* s.startswith(sub)
StartsWith(s, sub) == OccursAt(s, sub, 1)

\* s.endswith(sub)
EndsWith(s, sub) == OccursAt(s, sub, Len(s) - Len(sub) + 1)

\* s.count(sub): non-overlapping occurrences, scanned left to right
RECURSIVE CountFrom(_, _, _)
CountFrom(s, sub, start) ==
    LET i == Find(s, sub, start)
    IN  IF i = 0 \/ Len(sub) = 0 THEN 0
        ELSE 1 + CountFrom(s, sub, i + Len(sub))

Count(s, sub) == CountFrom(s, sub, 1)

\* number of characters of s that lie in the class cls
CountIn(s, cls) == Cardinality({i \in 1..Len(s) : s[i] \in cls})

\* " ".join(parts)
RECURSIVE Join(_)
Join(parts) ==
    IF Len(parts) = 0 THEN <<>>
    ELSE IF Len(parts) = 1 THEN parts[1]
    ELSE parts[1] \o <<" ">> \o Join(Tail(parts))

----------------------------------------------------------------------------
(* String literals of the source, as character sequences.                   *)

S_http == <<"h", "t", "t", "p">>
S_https == <<"h", "t", "t", "p", "s">>
S_resolve == <<"r", "e", "s", "o", "l", "v", "e">>
S_error == <<"e", "r", "r", "o", "r">>
S_fail == <<"f", "a", "i", "l">>
S_please_wait == <<"p", "l", "e", "a", "s", "e", " ", "w", "a", "i", "t">>
S_loading == <<"l", "o", "a", "d", "i", "n", "g">>
S_redirect == <<"r", "e", "d", "i", "r", "e", "c", "t">>
S_script_tag == <<"<", "s", "c", "r", "i", "p", "t">>
S_iframe_tag == <<"<", "i", "f", "r", "a", "m", "e">>
S_form_tag == <<"<", "f", "o", "r", "m">>
S_href == <<"h", "r", "e", "f", "=">>
S_ar_io_dev == <<".", "a", "r", "-", "i", "o", ".", "d", "e", "v">>
S_arweave == <<"a", "r", "w", "e", "a", "v", "e">>
S_server == <<"s", "e", "r", "v", "e", "r">>
S_content_type == <<"c", "o", "n", "t", "e", "n", "t", "-", "t", "y", "p", "e">>
S_cloudflare == <<"c", "l", "o", "u", "d", "f", "l", "a", "r", "e">>
S_cloudfront == <<"c", "l", "o", "u", "d", "f", "r", "o", "n", "t">>
S_tencent_cos == <<"t", "e", "n", "c", "e", "n", "t", "-", "c", "o", "s">>
S_javascript == <<"j", "a", "v", "a", "s", "c", "r", "i", "p", "t">>
S_css == <<"c", "s", "s">>
S_html == <<"h", "t", "m", "l">>
S_gzip == <<"g", "z", "i", "p">>
S_csp == <<"c", "o", "n", "t", "e", "n", "t", "-", "s", "e", "c", "u", "r", "i", "t", "y", "-", "p", "o", "l", "i", "c", "y">>
S_long_lines == <<"l", "o", "n", "g", " ", "l", "i", "n", "e", "s">>
S_ascii == <<"a", "s", "c", "i", "i">>
S_None == <<"N", "o", "n", "e">>
S_True == <<"T", "r", "u", "e">>
S_False == <<"F", "a", "l", "s", "e">>
S_json_ext == <<".", "j", "s", "o", "n">>
S_md5 == <<"m", "d", "5">>
suspicious_terms ==
    <<<<"l", "o", "g", "i", "n">>,
      <<"u", "p", "d", "a", "t", "e">>,
      <<"v", "e", "r", "i", "f", "y">>,
      <<"s", "e", "c", "u", "r", "e">>,
      <<"b", "a", "n", "k">>,
      <<"a", "c", "c", "o", "u", "n", "t">>,
      <<"s", "i", "g", "n", "i", "n">>,
      <<"p", "a", "s", "s", "w", "o", "r", "d">>,
      <<"c", "o", "n", "f", "i", "r", "m">>>>

----------------------------------------------------------------------------
(* JSON values as json.loads returns them, and the Python built-ins the    *)
(* source applies to them.                                                 *)

JNull == [t |-> "null"]
JBool(b) == [t |-> "bool", b |-> b]
JInt(n) == [t |-> "int", n |-> n]
JStr(s) == [t |-> "str", s |-> s]
JList(xs) == [t |-> "list", xs |-> xs]
JObj(f) == [t |-> "obj", f |-> f]

\* the empty dict {} and the empty str ""
EmptyDict == <<>>
EmptyObj == JObj(EmptyDict)
EmptyStr == JStr(<<>>)

\* outcome of evaluating a Python expression: a value, or an exception
Ok(v) == [raised |-> FALSE, value |-> v, exc |-> "none"]
Raise(exc, v) == [raised |-> TRUE, value |-> v, exc |-> exc]

\* a Python float, kept as the exact fraction num/den
Float(num, den) == [num |-> num, den |-> den]

\* d.get(k, dflt) on a dict
Get(d, k, dflt) == IF k \in DOMAIN d THEN d[k] ELSE dflt

\* bool(v)
Truthy(v) ==
    CASE v.t = "null" -> FALSE
      [] v.t = "bool" -> v.b
      [] v.t = "int"  -> v.n # 0
      [] v.t = "str"  -> Len(v.s) > 0
      [] v.t = "list" -> Len(v.xs) > 0
      [] v.t = "obj"  -> DOMAIN v.f # {}

\* a or b
PyOr(a, b) == IF Truthy(a) THEN a ELSE b

\* len(v): defined for str, list and dict, TypeError otherwise
HasLen(v) == v.t \in {"str", "list", "obj"}
PyLen(v) ==
    CASE v.t = "str"  -> Len(v.s)
      [] v.t = "list" -> Len(v.xs)
      [] v.t = "obj"  -> Cardinality(DOMAIN v.f)
      [] OTHER -> 0

\* value of a sequence of decimal digits
RECURSIVE DecVal(_)
DecVal(ds) ==
    IF Len(ds) = 0 THEN 0
    ELSE 10 * DecVal(SubSeq(ds, 1, Len(ds) - 1))
         + (CHOOSE d \in 0..9 : ToString(d) = ds[Len(ds)])

\* str(n) for an integer n
RECURSIVE DecStr(_)
DecStr(n) ==
    IF n < 0 THEN <<"-">> \o DecStr(0 - n)
    ELSE IF n < 10 THEN <<ToString(n)>>
    ELSE DecStr(n \div 10) \o <<ToString(n % 10)>>

Whitespace == {" ", "\t", "\n", "\r"}

\* s.strip()
RECURSIVE Strip(_)
Strip(s) ==
    IF Len(s) = 0 THEN s
    ELSE IF s[1] \in Whitespace THEN Strip(Tail(s))
    ELSE IF s[Len(s)] \in Whitespace THEN Strip(SubSeq(s, 1, Len(s) - 1))
    ELSE s

\* whether body is decimal digits with single underscores between them
IsDecimal(body) ==
    /\ Len(body) > 0
    /\ body[1] \in Digits
    /\ body[Len(body)] \in Digits
    /\ \A i \in 1..Len(body) : body[i] \in Digits \cup {"_"}
    /\ \A i \in 1..(Len(body) - 1) : ~(body[i] = "_" /\ body[i + 1] = "_")

\* int(t) for a stripped str t: optional sign, then a decimal body
SignedToInt(t) ==
    IF Len(t) > 0 /\ t[1] \in {"+", "-"}
    THEN IF ~IsDecimal(Tail(t)) THEN Raise("ValueError", 0)
         ELSE IF t[1] = "-"
              THEN Ok(0 - DecVal(SelectSeq(Tail(t), LAMBDA c : c \in Digits)))
              ELSE Ok(DecVal(SelectSeq(Tail(t), LAMBDA c : c \in Digits)))
    ELSE IF ~IsDecimal(t) THEN Raise("ValueError", 0)
         ELSE Ok(DecVal(SelectSeq(t, LAMBDA c : c \in Digits)))

\* int(s) for a str
StrToInt(s) == SignedToInt(Strip(s))

\* int(v)
PyInt(v) ==
    CASE v.t = "int"  -> Ok(v.n)
      [] v.t = "bool" -> Ok(IF v.b THEN 1 ELSE 0)
      [] v.t = "str"  -> StrToInt(v.s)
      [] OTHER -> Raise("TypeError", 0)

\* int(b) for a Python bool
B2I(b) == IF b THEN 1 ELSE 0

\* the text of a dict key, for repr() and for a loop over a dict
KeyText(k) ==
    CASE k = "url" -> <<"u", "r", "l">>
      [] k = "subdomain" -> <<"s", "u", "b", "d", "o", "m", "a", "i", "n">>
      [] k = "has_subdomain" -> <<"h", "a", "s", "_", "s", "u", "b", "d", "o", "m", "a", "i", "n">>
      [] k = "dns_status" -> <<"d", "n", "s", "_", "s", "t", "a", "t", "u", "s">>
      [] k = "content_status" -> <<"c", "o", "n", "t", "e", "n", "t", "_", "s", "t", "a", "t", "u", "s">>
      [] k = "tech_info" -> <<"t", "e", "c", "h", "_", "i", "n", "f", "o">>
      [] k = "host_info" -> <<"h", "o", "s", "t", "_", "i", "n", "f", "o">>
      [] k = "content_info" -> <<"c", "o", "n", "t", "e", "n", "t", "_", "i", "n", "f", "o">>
      [] k = "additional" -> <<"a", "d", "d", "i", "t", "i", "o", "n", "a", "l">>
      [] k = "status_code" -> <<"s", "t", "a", "t", "u", "s", "_", "c", "o", "d", "e">>
      [] k = "error_msg" -> <<"e", "r", "r", "o", "r", "_", "m", "s", "g">>
      [] k = "title" -> <<"t", "i", "t", "l", "e">>
      [] k = "html" -> <<"h", "t", "m", "l">>
      [] k = "destination" -> <<"d", "e", "s", "t", "i", "n", "a", "t", "i", "o", "n">>
      [] k = "har" -> <<"h", "a", "r">>
      [] k = "responses" -> <<"r", "e", "s", "p", "o", "n", "s", "e", "s">>
      [] k = "response" -> <<"r", "e", "s", "p", "o", "n", "s", "e">>
      [] k = "headers" -> <<"h", "e", "a", "d", "e", "r", "s">>
      [] k = "key" -> <<"k", "e", "y">>
      [] k = "value" -> <<"v", "a", "l", "u", "e">>
      [] k = "md5" -> <<"m", "d", "5">>
      [] k = "file_type" -> <<"f", "i", "l", "e", "_", "t", "y", "p", "e">>
      [] k = "fail" -> <<"f", "a", "i", "l">>
      [] k = "error" -> <<"e", "r", "r", "o", "r">>

\* the keys of a dict in the order repr() lists them
RECURSIVE KeySeq(_)
KeySeq(ks) ==
    IF ks = {} THEN <<>>
    ELSE LET k == CHOOSE x \in ks : TRUE IN <<k>> \o KeySeq(ks \ {k})

\* ", ".join(parts)
RECURSIVE JoinComma(_)
JoinComma(parts) ==
    IF Len(parts) = 0 THEN <<>>
    ELSE IF Len(parts) = 1 THEN parts[1]
    ELSE parts[1] \o <<",", " ">> \o JoinComma(Tail(parts))

\* repr(v)
RECURSIVE PyRepr(_)
PyRepr(v) ==
    CASE v.t = "null" -> S_None
      [] v.t = "bool" -> IF v.b THEN S_True ELSE S_False
      [] v.t = "int"  -> DecStr(v.n)
      [] v.t = "str"  -> <<"'">> \o v.s \o <<"'">>
      [] v.t = "list" ->
            <<"[">> \o JoinComma([i \in 1..Len(v.xs) |-> PyRepr(v.xs[i])]) \o <<"]">>
      [] v.t = "obj"  ->
            LET ks == KeySeq(DOMAIN v.f)
            IN  <<"{">>
                \o JoinComma([i \in 1..Len(ks) |->
                      <<"'">> \o KeyText(ks[i]) \o <<"'", ":", " ">> \o PyRepr(v.f[ks[i]])])
                \o <<"}">>

\* str(v)
PyStr(v) == IF v.t = "str" THEN v.s ELSE PyRepr(v)

----------------------------------------------------------------------------
(* urllib.parse.urlparse (CPython 3.11) on a str, and the regular          *)
(* expressions of the source.                                              *)

\* urllib.parse.uses_params
uses_params ==
    {<<>>,
     <<"f", "t", "p">>,
     <<"h", "d", "l">>,
     <<"p", "r", "o", "s", "p", "e", "r", "o">>,
     <<"h", "t", "t", "p">>,
     <<"i", "m", "a", "p">>,
     <<"h", "t", "t", "p", "s">>,
     <<"s", "h", "t", "t", "p">>,
     <<"r", "t", "s", "p">>,
     <<"r", "t", "s", "p", "s">>,
     <<"r", "t", "s", "p", "u">>,
     <<"s", "i", "p">>,
     <<"s", "i", "p", "s">>,
     <<"m", "m", "s">>,
     <<"s", "f", "t", "p">>,
     <<"t", "e", "l">>}

\* urllib.parse.scheme_chars
scheme_chars == AlphaNum \cup {"+", "-", "."}

\* url.lstrip(_WHATWG_C0_CONTROL_OR_SPACE)
RECURSIVE LStrip(_)
LStrip(s) ==
    IF Len(s) > 0 /\ s[1] \in Whitespace THEN LStrip(Tail(s)) ELSE s

\* _splitnetloc(url, 2): 1-based position of the first of "/", "?", "#" after the
\* leading "//", or one past the end
NetlocEnd(u) ==
    LET ends == {i \in 3..Len(u) : u[i] \in {"/", "?", "#"}}
    IN  IF ends = {} THEN Len(u) + 1 ELSE MinOf(ends)

\* _splitparams(path): the path without its ";params"
SplitParamsPath(path) ==
    LET i == Find(path, <<";">>, IF RFind(path, <<"/">>) # 0 THEN RFind(path, <<"/">>) ELSE 1)
    IN  IF i = 0 THEN path ELSE SubSeq(path, 1, i - 1)

\* the url with leading blanks stripped and tab, CR and LF removed
UrlClean(url) == SelectSeq(LStrip(url), LAMBDA c : c \notin {"\t", "\r", "\n"})

\* 1-based position of the ":" that ends a scheme, 0 when url has no scheme
SchemeEnd(u) ==
    LET colon == Find(u, <<":">>, 1)
    IN  IF /\ colon > 1
           /\ u[1] \in Letters
           /\ \A k \in 1..(colon - 1) : u[k] \in scheme_chars
        THEN colon ELSE 0

\* the last steps of urlsplit and urlparse: the query after the first "?", the
\* ";params" cut from the path, and the check of "[" and "]" in the netloc
SplitQuery(scheme, netloc, u) ==
    LET qmark == Find(u, <<"?">>, 1)
    IN  IF Contains(netloc, <<"[">>) # Contains(netloc, <<"]">>)
        THEN Raise("ValueError", <<>>)
        ELSE Ok([scheme |-> scheme,
                 netloc |-> netloc,
                 path |-> IF qmark = 0
                          THEN IF scheme \in uses_params THEN SplitParamsPath(u) ELSE u
                          ELSE IF scheme \in uses_params
                               THEN SplitParamsPath(SubSeq(u, 1, qmark - 1))
                               ELSE SubSeq(u, 1, qmark - 1),
                 query |-> IF qmark = 0 THEN <<>> ELSE From(u, qmark + 1)])

\* the fragment after the first "#" is dropped
SplitFragment(scheme, netloc, u) ==
    LET hash == Find(u, <<"#">>, 1)
    IN  SplitQuery(scheme, netloc, IF hash = 0 THEN u ELSE SubSeq(u, 1, hash - 1))

\* after the scheme: "//" starts a netloc that runs to the first "/", "?" or "#"
SplitNetloc(scheme, u) ==
    IF StartsWith(u, <<"/", "/">>)
    THEN SplitFragment(scheme, SubSeq(u, 3, NetlocEnd(u) - 1), From(u, NetlocEnd(u)))
    ELSE SplitFragment(scheme, <<>>, u)

\* the scheme ending at position colon (0: none) is split off and lowercased
SplitScheme(u, colon) ==
    IF colon = 0 THEN SplitNetloc(<<>>, u)
    ELSE SplitNetloc(Lower(SubSeq(u, 1, colon - 1)), From(u, colon + 1))

\* urlparse(url) for a str url: Ok([scheme, netloc, path, query]) or ValueError.
\* A netloc holding both "[" and "]" (a bracketed IPv6 host) is outside the inputs
\* of this model.
urlparse(url) == SplitScheme(UrlClean(url), SchemeEnd(UrlClean(url)))

\* re.search(r"\.([a-zA-Z0-9]{1,6})$", path): the length of group(1), 0 if no match
FileExtLen(path) ==
    LET lens == {n \in 1..6 :
                    /\ n + 1 <= Len(path)
                    /\ path[Len(path) - n] = "."
                    /\ \A k \in (Len(path) - n + 1)..Len(path) : path[k] \in AlphaNum}
    IN  IF lens = {} THEN 0 ELSE MinOf(lens)

\* bool(re.search(r"[0-9a-z]{15,}", s))
HasRandomRun(s) ==
    \E i \in 1..(Len(s) - 14) :
        \A k \in i..(i + 14) : s[k] \in LowerLetters \cup Digits

\* whether \d{1,3}(\.\d{1,3}){groups-1} matches s at position pos
RECURSIVE MatchOctets(_, _, _)
MatchOctets(s, pos, groups) ==
    \E n \in 1..3 :
        /\ pos + n - 1 <= Len(s)
        /\ \A k \in pos..(pos + n - 1) : s[k] \in Digits
        /\ \/ groups = 1
           \/ /\ pos + n <= Len(s)
              /\ s[pos + n] = "."
              /\ MatchOctets(s, pos + n + 1, groups - 1)

\* bool(re.search(r"https?://\d{1,3}(\.\d{1,3}){3}", s))
HasIpUrl(s) ==
    \E i \in 1..Len(s) :
        \/ /\ OccursAt(s, S_http \o <<":", "/", "/">>, i)
           /\ MatchOctets(s, i + 7, 4)
        \/ /\ OccursAt(s, S_https \o <<":", "/", "/">>, i)
           /\ MatchOctets(s, i + 8, 4)

----------------------------------------------------------------------------
(* extract_general_features.py                                             *)

\* round(num / den, 3) for num >= 0, den > 0, as a count of thousandths.  A tie is
\* resolved to the even neighbour, as round() does when num/den is exact in binary.
Round3(num, den) ==
    LET q == (1000 * num) \div den
        r == (1000 * num) % den
    IN  IF 2 * r < den THEN Float(q, 1000)
        ELSE IF 2 * r > den THEN Float(q + 1, 1000)
        ELSE IF q % 2 = 0 THEN Float(q, 1000) ELSE Float(q + 1, 1000)

\* lines 40-56 with file_extension_len assigned only when the extension matched
UrlStructureFeatures_ext_when_matched(url, parsed) ==
    [url_length |-> Len(url),
     scheme_http |-> B2I(parsed.scheme = S_http),
     scheme_https |-> B2I(parsed.scheme = S_https),
     path_length |-> Len(parsed.path),
     query_length |-> Len(parsed.query),
     num_path_segments |->
         IF Len(parsed.path) > 0 THEN Count(parsed.path, <<"/">>) ELSE 0,
     num_query_params |->
         IF Len(parsed.query) > 0 THEN Count(parsed.query, <<"&">>) + 1 ELSE 0,
     has_query |-> B2I(Len(parsed.query) > 0),
     has_file_extension |-> B2I(FileExtLen(parsed.path) > 0)]
    @@ (IF FileExtLen(parsed.path) > 0
        THEN [file_extension_len |-> FileExtLen(parsed.path)]
        ELSE EmptyDict)

\* lines 40-56: url length, scheme, path, query and file-extension features
UrlStructureFeatures(url, parsed) ==
    [url_length |-> Len(url),
     scheme_http |-> B2I(parsed.scheme = S_http),
     scheme_https |-> B2I(parsed.scheme = S_https),
     path_length |-> Len(parsed.path),
     query_length |-> Len(parsed.query),
     num_path_segments |->
         IF Len(parsed.path) > 0 THEN Count(parsed.path, <<"/">>) ELSE 0,
     num_query_params |->
         IF Len(parsed.query) > 0 THEN Count(parsed.query, <<"&">>) + 1 ELSE 0,
     has_query |-> B2I(Len(parsed.query) > 0),
     has_file_extension |-> B2I(FileExtLen(parsed.path) > 0),
     file_extension_len |-> FileExtLen(parsed.path)]

\* subdomain.count(".") for a str or a list subdomain
SubdomainDots(subdomain) ==
    IF subdomain.t = "str" THEN Count(subdomain.s, <<".">>)
    ELSE Cardinality({i \in 1..Len(subdomain.xs) : subdomain.xs[i] = JStr(<<".">>)})

\* lines 70-77: lexical indicators over the raw url
LexicalFeatures(url) ==
    [num_digits_in_url |-> CountIn(url, Digits),
     num_special_chars |-> Cardinality({i \in 1..Len(url) : url[i] \notin AlphaNum}),
     contains_ip_in_url |-> B2I(HasIpUrl(url)),
     contains_encoded_chars |->
         B2I(Contains(url, <<"%">>)
             \/ \E c \in {"+", "-", "_", "="} : Contains(url, <<c>>)),
     contains_suspicious_keyword |->
         B2I(\E i \in 1..Len(suspicious_terms) : Contains(Lower(url), suspicious_terms[i]))]

\* lines 80-81 with the path length, not the url length, in the denominators
RatioFeatures_path_length(f) ==
    [digit_ratio |-> Round3(f.num_digits_in_url, f.path_length + 1),
     special_char_ratio |-> Round3(f.num_special_chars, f.path_length + 1)]

\* lines 80-81: the two ratio features, from the features computed so far
RatioFeatures(f) ==
    [digit_ratio |-> Round3(f.num_digits_in_url, f.url_length + 1),
     special_char_ratio |-> Round3(f.num_special_chars, f.url_length + 1)]

\* lines 89-96 with the redirect bucket closed at 400
StatusFeatures_redirect_closed(dns_status, content_status) ==
    [dns_resolves |-> B2I(Contains(dns_status, S_resolve)),
     dns_error |-> B2I(Contains(dns_status, S_error) \/ Contains(dns_status, S_fail)),
     content_status |-> content_status,
     is_http_ok |-> B2I(200 <= content_status /\ content_status < 300),
     is_http_redirect |-> B2I(300 <= content_status /\ content_status <= 400),
     is_http_client_error |-> B2I(400 <= content_status /\ content_status < 500),
     is_http_server_error |-> B2I(500 <= content_status /\ content_status < 600)]

\* lines 89-96: DNS flags and HTTP status buckets
StatusFeatures(dns_status, content_status) ==
    [dns_resolves |-> B2I(Contains(dns_status, S_resolve)),
     dns_error |-> B2I(Contains(dns_status, S_error) \/ Contains(dns_status, S_fail)),
     content_status |-> content_status,
     is_http_ok |-> B2I(200 <= content_status /\ content_status < 300),
     is_http_redirect |-> B2I(300 <= content_status /\ content_status < 400),
     is_http_client_error |-> B2I(400 <= content_status /\ content_status < 500),
     is_http_server_error |-> B2I(500 <= content_status /\ content_status < 600)]

\* lines 101-109: the two composite heuristics, from the features computed so far
HeuristicFeatures(f) ==
    [is_complex_url |->
         B2I(f.url_length > 80
             \/ f.num_special_chars > 10
             \/ f.contains_random_subdomain # 0),
     is_suspicious_dns_or_status |->
         B2I(f.dns_error # 0
             \/ f.is_http_client_error # 0
             \/ f.is_http_server_error # 0)]

\* line 37: url = data.get("url", "") or ""
UrlOf(d) == PyOr(Get(d, "url", EmptyStr), EmptyStr)

\* line 38: the parse result of a str url that urlparse accepts
ParsedOf(d) == urlparse(UrlOf(d).s).value

\* line 61: subdomain = data.get("subdomain", "") or parsed.netloc or ""
SubdomainOf(d) ==
    PyOr(PyOr(Get(d, "subdomain", EmptyStr), JStr(ParsedOf(d).netloc)), EmptyStr)

\* lines 37-38: urlparse(url) raises on a url that is not a str, or on a bad netloc
ParseOutcome(url) ==
    IF url.t # "str" THEN Raise("AttributeError", EmptyDict)
    ELSE IF urlparse(url.s).raised THEN Raise(urlparse(url.s).exc, EmptyDict)
    ELSE Ok(EmptyDict)

GeneralParse(d) == ParseOutcome(UrlOf(d))

\* lines 62-65 for the subdomain chosen at line 61 and hs = int(has_subdomain): the
\* features, or the fault with those assigned before it
SubdomainFrom(subdomain, hs) ==
    IF hs.raised THEN Raise(hs.exc, EmptyDict) ELSE
    IF ~HasLen(subdomain) THEN Raise("TypeError", [has_subdomain |-> hs.value]) ELSE
    IF subdomain.t = "obj"
    THEN Raise("AttributeError",
               [has_subdomain |-> hs.value, subdomain_length |-> PyLen(subdomain)])
    ELSE
    IF subdomain.t # "str"
    THEN Raise("TypeError",
               [has_subdomain |-> hs.value, subdomain_length |-> PyLen(subdomain),
                num_subdomain_levels |-> SubdomainDots(subdomain)])
    ELSE
    Ok([has_subdomain |-> hs.value,
        subdomain_length |-> PyLen(subdomain),
        num_subdomain_levels |-> SubdomainDots(subdomain),
        contains_random_subdomain |-> B2I(HasRandomRun(subdomain.s))])

\* lines 61-65
SubdomainFeatures(d) ==
    SubdomainFrom(SubdomainOf(d), PyInt(Get(d, "has_subdomain", JBool(FALSE))))

\* lines 87-96 for the lowercased dns_status and cs = int(content_status)
StatusFrom(dns_status, cs) ==
    IF cs.raised THEN Raise(cs.exc, EmptyDict)
    ELSE Ok(StatusFeatures(dns_status, cs.value))

\* lines 86-96: dns_status, content_status and the features derived from them
DnsStatusFeatures(d) ==
    StatusFrom(Lower(PyStr(Get(d, "dns_status", EmptyStr))),
               PyInt(Get(d, "content_status", JInt(0))))

\* lines 112-114: the tech_info summary
TechInfoFrom(tech_info) ==
    IF ~HasLen(tech_info) THEN Raise("TypeError", EmptyDict)
    ELSE Ok([tech_info_count |-> PyLen(tech_info),
             has_tech_info |-> B2I(Truthy(tech_info))])

TechInfoFeatures(d) == TechInfoFrom(Get(d, "tech_info", JList(<<>>)))

\* the body of extract_general_features as its blocks in source order: block i run
\* on the dict d with the features assigned so far
GeneralBlock(i, d, features) ==
    CASE i = 1 -> GeneralParse(d)
      [] i = 2 -> Ok(UrlStructureFeatures(UrlOf(d).s, ParsedOf(d)))
      [] i = 3 -> SubdomainFeatures(d)
      [] i = 4 -> Ok(LexicalFeatures(UrlOf(d).s))
      [] i = 5 -> Ok(RatioFeatures(features))
      [] i = 6 -> DnsStatusFeatures(d)
      [] i = 7 -> Ok(HeuristicFeatures(features))
      [] i = 8 -> TechInfoFeatures(d)

\* run blocks i..8: a block that raises ends the call, keeping what it assigned
RECURSIVE GeneralRun(_, _, _)
GeneralStep(i, d, features, b) ==
    IF b.raised THEN Raise(b.exc, features @@ b.value)
    ELSE GeneralRun(i + 1, d, features @@ b.value)

GeneralRun(i, d, features) ==
    IF i > 8 THEN Ok(features)
    ELSE GeneralStep(i, d, features, GeneralBlock(i, d, features))

\* extract_general_features(data): Ok(features), or the exception raised together
\* with the features assigned before the fault
extract_general_features(arg) ==
    IF arg.t # "obj" THEN Raise("AttributeError", EmptyDict)
    ELSE GeneralRun(1, arg.f, EmptyDict)

----------------------------------------------------------------------------
(* extract_contentinfo_features.py                                         *)

\* the items a for-loop over v yields: the elements of a list, the characters of a
\* str, the keys of a dict
Elems(v) ==
    CASE v.t = "list" -> v.xs
      [] v.t = "str"  -> [i \in 1..Len(v.s) |-> JStr(<<v.s[i]>>)]
      [] v.t = "obj"  -> LET ks == KeySeq(DOMAIN v.f)
                         IN  [i \in 1..Len(ks) |-> JStr(KeyText(ks[i]))]
      [] OTHER -> <<>>

\* lines 41-46: indicators over the lowercased html
HtmlFeatures(html) ==
    [contains_loader_text |->
         B2I(\E p \in {S_please_wait, S_loading, S_redirect} : Contains(html, p)),
     contains_script_tag |-> B2I(Contains(html, S_script_tag)),
     contains_iframe |-> B2I(Contains(html, S_iframe_tag)),
     contains_form |-> B2I(Contains(html, S_form_tag)),
     num_links |-> Count(html, S_href),
     num_scripts |-> Count(html, S_script_tag)]

\* destination.count(".") for a str or a list destination
DestinationDots(destination) ==
    IF destination.t = "str" THEN Count(destination.s, <<".">>)
    ELSE Cardinality({i \in 1..Len(destination.xs) : destination.xs[i] = JStr(<<".">>)})

\* lines 54-57: indicators over a str destination
DestinationFeatures(dest) ==
    [uses_https |-> B2I(StartsWith(dest, S_https)),
     contains_ip_in_url |-> B2I(HasIpUrl(dest)),
     contains_encoded_chars |->
         B2I(Contains(dest, <<"%">>) \/ \E x \in {"+", "-", "_"} : Contains(dest, <<x>>)),
     is_arweave_host |-> B2I(Contains(dest, S_ar_io_dev) \/ Contains(dest, S_arweave))]

\* lines 72-78 for one header list: the server and content-type values appended,
\* or the exception of the first header that faults
RECURSIVE HeaderScan(_, _)
HeaderScan(hs, acc) ==
    IF Len(hs) = 0 THEN Ok(acc) ELSE
    LET h == hs[1] IN
    IF h.t # "obj" THEN Raise("AttributeError", acc) ELSE
    LET k == Get(h.f, "key", EmptyStr)
        v == Get(h.f, "value", EmptyStr)
    IN
    IF k.t # "str" \/ v.t # "str" THEN Raise("AttributeError", acc) ELSE
    LET key == Lower(k.s)
        value == Lower(v.s)
        servers == IF key = S_server THEN Append(acc.servers, value) ELSE acc.servers
        ctypes == IF key = S_content_type
                  THEN Append(acc.content_types, value) ELSE acc.content_types
    IN  HeaderScan(Tail(hs), [servers |-> servers, content_types |-> ctypes])

\* lines 70-78: the loop over the HAR entries
RECURSIVE HarScan(_, _)
HarScan(entries, acc) ==
    IF Len(entries) = 0 THEN Ok(acc) ELSE
    LET entry == entries[1] IN
    IF entry.t # "obj" THEN Raise("AttributeError", acc) ELSE
    LET response == Get(entry.f, "response", EmptyObj) IN
    IF response.t # "obj" THEN Raise("AttributeError", acc) ELSE
    LET headers == Get(response.f, "headers", JList(<<>>)) IN
    IF ~HasLen(headers) THEN Raise("TypeError", acc) ELSE
    LET r == HeaderScan(Elems(headers), acc) IN
    IF r.raised THEN r ELSE HarScan(Tail(entries), r.value)

\* lines 83-90: server and content-type fingerprints
HeaderFeatures(servers, content_types) ==
    LET server_string == Join(servers)
        content_string == Join(content_types)
        n(sub) == Cardinality({i \in 1..Len(content_types) : Contains(content_types[i], sub)})
    IN  [has_cloudflare |-> B2I(Contains(server_string, S_cloudflare)),
         has_aws_cloudfront |-> B2I(Contains(server_string, S_cloudfront)),
         has_tencent_cos |-> B2I(Contains(server_string, S_tencent_cos)),
         num_js_files |-> n(S_javascript),
         num_css_files |-> n(S_css),
         num_html_files |-> n(S_html),
         has_gzip_encoding |-> B2I(Contains(content_string, S_gzip)),
         has_csp_header |-> B2I(Contains(content_string, S_csp))]

\* "md5" in r: Ok(TRUE/FALSE), or TypeError when r is not a container
HasMd5(r) ==
    CASE r.t = "obj"  -> Ok("md5" \in DOMAIN r.f)
      [] r.t = "str"  -> Ok(Contains(r.s, S_md5))
      [] r.t = "list" -> Ok(\E i \in 1..Len(r.xs) : r.xs[i] = JStr(S_md5))
      [] OTHER -> Raise("TypeError", FALSE)

\* the value a set keeps for v: True and 1, False and 0 hash and compare equal
HashKey(v) == IF v.t = "bool" THEN JInt(B2I(v.b)) ELSE v

\* line 95: md5_list, or the exception of the first response that faults
RECURSIVE Md5List(_, _)
Md5List(rs, acc) ==
    IF Len(rs) = 0 THEN Ok(acc) ELSE
    LET r == rs[1]
        has == HasMd5(r)
    IN
    IF has.raised THEN Raise(has.exc, acc) ELSE
    IF ~has.value THEN Md5List(Tail(rs), acc) ELSE
    IF r.t # "obj" THEN Raise("AttributeError", acc) ELSE
    Md5List(Tail(rs), Append(acc, Get(r.f, "md5", JNull)))

\* line 98: sum(len(r.get("file_type", "")) for r in responses)
RECURSIVE FileTypeLenSum(_)
FileTypeLenSum(rs) ==
    IF Len(rs) = 0 THEN Ok(0) ELSE
    LET r == rs[1] IN
    IF r.t # "obj" THEN Raise("AttributeError", 0) ELSE
    LET ft == Get(r.f, "file_type", EmptyStr) IN
    IF ~HasLen(ft) THEN Raise("TypeError", 0) ELSE
    LET rest == FileTypeLenSum(Tail(rs)) IN
    IF rest.raised THEN rest ELSE Ok(PyLen(ft) + rest.value)

\* lines 100-101: responses whose lowercased file_type contains sub
FileTypeCount(rs, sub) ==
    Cardinality({i \in 1..Len(rs) :
                    Contains(Lower(Get(rs[i].f, "file_type", EmptyStr).s), sub)})

\* lines 106-111: the two derived indicators, from the features computed so far
DerivedFeatures(f) ==
    [is_suspicious_loader_page |->
         B2I(f.contains_loader_text # 0 /\ f.num_js_files > 3 /\ f.url_length > 100),
     is_heavy_page |-> B2I(f.html_length > 10000 /\ f.num_requests > 5)]

\* lines 33-34: status_code and has_error
MetadataFeatures(d) ==
    LET sc == PyInt(Get(d, "status_code", JInt(0)))
    IN  IF sc.raised THEN Raise(sc.exc, EmptyDict)
        ELSE Ok([status_code |-> sc.value,
                 has_error |-> B2I(Get(d, "error_msg", JNull) # JNull)])

\* lines 35-37: title_length, has_html and html_length
TitleHtmlFeatures(d) ==
    LET title == Get(d, "title", JNull)
        html == Get(d, "html", EmptyStr)
        f == [title_length |-> IF Truthy(title) THEN PyLen(title) ELSE 0,
              has_html |-> B2I(Truthy(Get(d, "html", JNull)))]
    IN  IF Truthy(title) /\ ~HasLen(title) THEN Raise("TypeError", EmptyDict)
        ELSE IF ~HasLen(html) THEN Raise("TypeError", f)
        ELSE Ok(f @@ [html_length |-> PyLen(html)])

\* lines 40-46: html.lower() and the indicators over it
HtmlBlock(d) ==
    LET html == Get(d, "html", EmptyStr)
    IN  IF html.t # "str" THEN Raise("AttributeError", EmptyDict)
        ELSE Ok(HtmlFeatures(Lower(html.s)))

\* lines 51-57: the destination features, or the fault with those assigned before it
DestinationBlock(d) ==
    LET destination == Get(d, "destination", EmptyStr) IN
    IF ~HasLen(destination) THEN Raise("TypeError", EmptyDict) ELSE
    IF destination.t = "obj"
    THEN Raise("AttributeError", [url_length |-> PyLen(destination)])
    ELSE
    IF destination.t # "str"
    THEN Raise("AttributeError",
               [url_length |-> PyLen(destination),
                num_subdomains |-> DestinationDots(destination)])
    ELSE
    Ok([url_length |-> PyLen(destination),
        num_subdomains |-> DestinationDots(destination)]
       @@ DestinationFeatures(destination.s))

\* lines 62-65: har and responses default to [] and are counted
CountsBlock(d) ==
    LET har_entries == Get(d, "har", JList(<<>>))
        responses == Get(d, "responses", JList(<<>>))
    IN  IF ~HasLen(har_entries) THEN Raise("TypeError", EmptyDict)
        ELSE IF ~HasLen(responses)
             THEN Raise("TypeError", [num_requests |-> PyLen(har_entries)])
        ELSE Ok([num_requests |-> PyLen(har_entries),
                 num_responses |-> PyLen(responses)])

\* lines 68-90: the HAR loop and the fingerprints of what it collected
HarBlock(d) ==
    LET scan == HarScan(Elems(Get(d, "har", JList(<<>>))),
                        [servers |-> <<>>, content_types |-> <<>>])
    IN  IF scan.raised THEN Raise(scan.exc, EmptyDict)
        ELSE Ok(HeaderFeatures(scan.value.servers, scan.value.content_types))

\* lines 95-96: md5_list and the number of distinct hashes; set() raises on an
\* unhashable list or dict
Md5Block(d) ==
    LET md5_list == Md5List(Elems(Get(d, "responses", JList(<<>>))), <<>>)
    IN  IF md5_list.raised THEN Raise(md5_list.exc, EmptyDict)
        ELSE IF \E i \in 1..Len(md5_list.value) :
                    md5_list.value[i].t \in {"list", "obj"}
             THEN Raise("TypeError", EmptyDict)
        ELSE Ok([num_unique_md5 |->
                    Cardinality({HashKey(md5_list.value[i]) :
                                    i \in 1..Len(md5_list.value)})])

\* lines 97-99: the mean length of file_type, the sum divided by (len or 1)
AvgBlock(d) ==
    LET rs == Elems(Get(d, "responses", JList(<<>>)))
        total == FileTypeLenSum(rs)
    IN  IF total.raised THEN Raise(total.exc, EmptyDict)
        ELSE Ok([avg_file_size_class |->
                    Float(total.value, IF Len(rs) = 0 THEN 1 ELSE Len(rs))])

\* lines 100-101: file_type.lower() raises on a file_type that is not a str
FileTypeBlock(d) ==
    LET rs == Elems(Get(d, "responses", JList(<<>>)))
    IN  IF \E i \in 1..Len(rs) : Get(rs[i].f, "file_type", EmptyStr).t # "str"
        THEN Raise("AttributeError", EmptyDict)
        ELSE Ok([num_long_lines_files |-> FileTypeCount(rs, S_long_lines),
                 num_ascii_files |-> FileTypeCount(rs, S_ascii)])

\* the body of extract_contentinfo_features as its blocks in source order: block i
\* run on the dict d with the features assigned so far
ContentBlock(i, d, features) ==
    CASE i = 1 -> MetadataFeatures(d)
      [] i = 2 -> TitleHtmlFeatures(d)
      [] i = 3 -> HtmlBlock(d)
      [] i = 4 -> DestinationBlock(d)
      [] i = 5 -> CountsBlock(d)
      [] i = 6 -> HarBlock(d)
      [] i = 7 -> Md5Block(d)
      [] i = 8 -> AvgBlock(d)
      [] i = 9 -> FileTypeBlock(d)
      [] i = 10 -> Ok(DerivedFeatures(features))

\* run blocks i..10: a block that raises ends the call, keeping what it assigned
RECURSIVE ContentRun(_, _, _)
ContentStep(i, d, features, b) ==
    IF b.raised THEN Raise(b.exc, features @@ b.value)
    ELSE ContentRun(i + 1, d, features @@ b.value)

ContentRun(i, d, features) ==
    IF i > 10 THEN Ok(features)
    ELSE ContentStep(i, d, features, ContentBlock(i, d, features))

\* extract_contentinfo_features(content_info): Ok(features), or the exception raised
\* together with the features assigned before the fault
extract_contentinfo_features(content_info) ==
    IF content_info.t # "obj" THEN Raise("AttributeError", EmptyDict)
    ELSE ContentRun(1, content_info.f, EmptyDict)

----------------------------------------------------------------------------
(* orchestrator.py: safe_call, load_json_file and the pieces of            *)
(* build_global_dataframe.                                                 *)

\* categories (lines 73-76): folder, label and category name
categories ==
    <<[folder |-> "benign", label |-> 1, category_name |-> "benign"],
      [folder |-> "malicious", label |-> 0, category_name |-> "malicious"]>>

\* the four extractors in the order build_global_dataframe calls them
ExtractorOrder == <<"general", "host", "content", "additional">>

\* isinstance(result, dict) for what an extractor returned: a feature map, as
\* opposed to some other JSON value
IsDict(v) == "t" \notin DOMAIN v

\* safe_call(func, arg, fname, filename) for an extractor given as the map from its
\* argument to what the call does: the dict it returns when it returns one, {} when
\* it returns something else or raises.  The handler catches every Exception, so
\* nothing is raised past safe_call.
safe_call(func, arg) ==
    LET a == IF arg = JNull THEN EmptyObj ELSE arg
        result == func[a]
    IN  IF result.raised THEN Ok(EmptyDict)
        ELSE IF ~IsDict(result.value) THEN Ok(EmptyDict)
        ELSE Ok(result.value)

\* what func(arg) itself did inside safe_call, kept for the record's history
raw_call(func, arg) == func[IF arg = JNull THEN EmptyObj ELSE arg]

\* a file on disk: whether open()/read() succeed, whether the text is blank after
\* strip(), whether json.loads accepts it, and the value it then returns
Unreadable == [readable |-> FALSE, blank |-> FALSE, valid |-> FALSE, value |-> JNull]
Blank == [readable |-> TRUE, blank |-> TRUE, valid |-> FALSE, value |-> JNull]
Invalid == [readable |-> TRUE, blank |-> FALSE, valid |-> FALSE, value |-> JNull]
JsonFile(v) == [readable |-> TRUE, blank |-> FALSE, valid |-> TRUE, value |-> v]

\* the try body of load_json_file (lines 55-60)
load_body(file) ==
    IF ~file.readable THEN Raise("OSError", JNull)
    ELSE IF file.blank THEN Ok(JNull)
    ELSE IF ~file.valid THEN Raise("JSONDecodeError", JNull)
    ELSE Ok(file.value)

\* load_json_file with the json.JSONDecodeError handler alone
load_json_file_decode_handler_only(file) ==
    LET r == load_body(file)
    IN  IF r.raised /\ r.exc = "JSONDecodeError" THEN Ok(JNull) ELSE r

\* load_json_file(file_path, filename): both handlers return None
load_json_file(file) ==
    LET r == load_body(file)
    IN  IF r.raised /\ r.exc = "JSONDecodeError" THEN Ok(JNull)
        ELSE IF r.raised THEN Ok(JNull)
        ELSE r

\* fn.lower().endswith(".json")
IsJsonName(fn) == EndsWith(Lower(fn), S_json_ext)

\* line 85: the listing filtered to .json names, order kept
JsonFiles(listing) == SelectSeq(listing, IsJsonName)

\* row.update(d) that keeps the value a key already has
RowUpdate_keep_first(r, d) ==
    [k \in DOMAIN r \cup DOMAIN d |-> IF k \in DOMAIN r THEN r[k] ELSE d[k]]

\* row.update(d)
RowUpdate(r, d) ==
    [k \in DOMAIN r \cup DOMAIN d |-> IF k \in DOMAIN d THEN d[k] ELSE r[k]]

\* lines 112-114: the metadata written into the row
WithMetadata(r, label, filename, category_name) ==
    RowUpdate(RowUpdate(RowUpdate(r, [label |-> label]), [filename |-> filename]),
              [category |-> category_name])

\* data.get(key) or {}
Section(d, key) == PyOr(Get(d, key, JNull), EmptyObj)

\* lines 118-122: pd.DataFrame(data_rows), fillna(0), and the printed summary
BuildFrame(rows) ==
    LET columns == UNION {DOMAIN rows[i] : i \in 1..Len(rows)}
    IN  [rows |-> [i \in 1..Len(rows) |->
                      [k \in columns |-> IF k \in DOMAIN rows[i] THEN rows[i][k] ELSE 0]],
         samples |-> Len(rows),
         columns |-> Cardinality(columns)]

NoFrame == [rows |-> <<>>, samples |-> 0 - 1, columns |-> 0 - 1]

\* the directory entries a category folder can hold, in os.listdir order
AllNames ==
    <<<<"a", ".", "j", "s", "o", "n">>,
      <<"n", "o", "t", "e", "s", ".", "t", "x", "t">>,
      <<"B", ".", "J", "S", "O", "N">>,
      <<"e", ".", "c", "s", "v">>>>

----------------------------------------------------------------------------
(* The inputs the extractors and the batch are exercised on.                *)

\* a key that is missing from a dict
Absent == [t |-> "absent"]

\* the dict holding the keys of f whose value is not Absent
Present(f) == JObj([k \in {x \in DOMAIN f : f[x].t # "absent"} |-> f[k]])

\* characters the short urls are built from: a letter, a digit and the
\* separators urlparse and the regular expressions look for
UrlAlphabet == {"a", "1", ".", "/", "?", "&", ":", "-"}

\* every str over UrlAlphabet of length 0..MaxUrlLen
UrlStrings == UNION {[1..n -> UrlAlphabet] : n \in 0..MaxUrlLen}

U_ip == <<"h", "t", "t", "p", ":", "/", "/", "1", ".", "2", ".", "3", ".", "4", "/", "a", "-", "b">>
U_random == <<"h", "t", "t", "p", "s", ":", "/", "/", "a", "a", "a", "a", "a", "a", "a", "a", "a", "a", "a", "a", "a", "a", "a", "a", "b", ".", "a", "r", "-", "i", "o", ".", "d", "e", "v", "/", "x">>
U_login == <<"H", "T", "T", "P", ":", "/", "/", "a", ".", "b", "/", "L", "o", "g", "i", "n", ".", "p", "h", "p", "?", "a", "=", "1", "&", "b", "=", "2">>
U_plain == <<"h", "t", "t", "p", ":", "/", "/", "a", ".", "b", "/", "c">>
U_dest == <<"h", "t", "t", "p", "s", ":", "/", "/", "x", ".", "y">>
FixedUrls == {U_ip, U_random, U_login, U_plain}

AbsentFields ==
    [url |-> Absent, subdomain |-> Absent, has_subdomain |-> Absent,
     dns_status |-> Absent, content_status |-> Absent, tech_info |-> Absent]

\* records that vary the url alone
UrlInputs ==
    {Present([AbsentFields EXCEPT !.url = JStr(u)]) : u \in UrlStrings \cup FixedUrls}

D_resolves == <<"d", "n", "s", "_", "r", "e", "s", "o", "l", "v", "e", "s">>
D_error == <<"D", "N", "S", "_", "E", "R", "R", "O", "R">>
D_failed == <<"l", "o", "o", "k", "u", "p", " ", "f", "a", "i", "l", "e", "d">>

\* records that vary content_status over an integer range, with a dns_status
StatusInputs ==
    {Present([AbsentFields EXCEPT !.content_status = JInt(n), !.dns_status = s]) :
        n \in (0 - StatusBelow)..StatusAbove,
        s \in {Absent, JStr(D_resolves), JStr(D_error), JStr(D_failed)}}

\* records in which every field is absent, null, or a value of some JSON type
TypeInputs ==
    {Present([url |-> u, subdomain |-> s, has_subdomain |-> h, dns_status |-> d,
              content_status |-> c, tech_info |-> t]) :
        u \in {Absent, JNull, JInt(123), JStr(U_ip)},
        s \in {Absent, JNull, JInt(5), JStr(<<"a", ".", "b">>)},
        h \in {Absent, JNull, JBool(TRUE), JStr(<<"y", "e", "s">>)},
        d \in {Absent, JNull, JStr(D_error), JList(<<JStr(S_fail)>>)},
        c \in {Absent, JNull, JInt(404), JStr(<<"a", "b", "c">>), JStr(<<"5", "0", "3">>)},
        t \in {Absent, JNull, JList(<<JInt(1)>>)}}

GeneralInputs == UrlInputs \cup StatusInputs \cup TypeInputs

H_server == JObj([key |-> JStr(<<"S", "e", "r", "v", "e", "r">>), value |-> JStr(<<"c", "l", "o", "u", "d", "f", "l", "a", "r", "e">>)])
H_ctype == JObj([key |-> JStr(<<"C", "o", "n", "t", "e", "n", "t", "-", "T", "y", "p", "e">>), value |-> JStr(<<"t", "e", "x", "t", "/", "h", "t", "m", "l">>)])
H_nullkey == JObj([key |-> JNull, value |-> JStr(<<"x">>)])
H_nullvalue == JObj([key |-> JStr(<<"S", "e", "r", "v", "e", "r">>), value |-> JNull])
H_empty == EmptyObj

\* one HAR entry whose response carries the given headers value
EntryWith(headers) == JObj([response |-> JObj([headers |-> headers])])

\* har values: absent, null, and lists whose entries lack (or have null for) the
\* response, the headers, or a header's key or value
HarValues ==
    {Absent, JNull, JList(<<>>),
     JList(<<EmptyObj>>),
     JList(<<JObj([response |-> JNull])>>),
     JList(<<JObj([response |-> EmptyObj])>>),
     JList(<<EntryWith(JNull)>>),
     JList(<<EntryWith(JList(<<H_empty>>))>>),
     JList(<<EntryWith(JList(<<H_nullkey>>))>>),
     JList(<<EntryWith(JList(<<H_nullvalue>>))>>),
     JList(<<EntryWith(JList(<<H_server, H_ctype>>)), EmptyObj>>)}

R_ascii == JObj([md5 |-> JStr(<<"a", "b">>), file_type |-> JStr(<<"A", "S", "C", "I", "I", " ", "t", "e", "x", "t", ",", " ", "w", "i", "t", "h", " ", "v", "e", "r", "y", " ", "l", "o", "n", "g", " ", "l", "i", "n", "e", "s">>)])
ResponsesValues == {Absent, JNull, JList(<<EmptyObj>>), JList(<<R_ascii, R_ascii>>)}

Html_loader == <<"<", "s", "c", "r", "i", "p", "t", ">", "P", "l", "e", "a", "s", "e", " ", "W", "a", "i", "t", "<", "/", "s", "c", "r", "i", "p", "t", ">", "<", "a", " ", "h", "r", "e", "f", "=", "x", ">">>

\* content_info objects in which every field is absent, null, or well-formed
ContentInputs ==
    {Present([status_code |-> sc, error_msg |-> em, title |-> ti, html |-> ht,
              destination |-> de, har |-> ha, responses |-> re]) :
        sc \in {Absent, JNull, JInt(200)},
        em \in {Absent, JNull, JStr(<<"t", "i", "m", "e", "o", "u", "t">>)},
        ti \in {Absent, JNull, JStr(<<"S", "i", "g", "n", " ", "i", "n">>)},
        ht \in {Absent, JNull, JStr(Html_loader)},
        de \in {Absent, JNull, JStr(U_ip)},
        ha \in HarValues,
        re \in ResponsesValues}

----------------------------------------------------------------------------
(* The extractors called directly on one input each.                       *)

\* no call made yet
Pending == [raised |-> FALSE, value |-> EmptyDict, exc |-> "pending"]

NoOuts == [e \in {"general", "host", "content", "additional"} |-> Pending]

\* the aggregator's variables while only the extractors are exercised
BatchIdle ==
    /\ fs = <<>>
    /\ pc = "idle"
    /\ cat = 0
    /\ files = <<>>
    /\ idx = 0
    /\ data = JNull
    /\ row = EmptyDict
    /\ outs = NoOuts
    /\ calls = <<>>
    /\ visited = <<>>
    /\ data_rows = <<>>
    /\ df = NoFrame

InitExtract ==
    /\ \/ gdata \in GeneralInputs /\ cdata = EmptyObj
       \/ gdata = EmptyObj /\ cdata \in ContentInputs
    /\ gres = Pending
    /\ cres = Pending
    /\ BatchIdle

\* feats = extract_general_features(data)
TestGeneral ==
    /\ pc = "idle"
    /\ gres = Pending
    /\ gres' = extract_general_features(gdata)
    /\ UNCHANGED <<gdata, cdata, cres, fs, pc, cat, files, idx, data, row, outs,
                   calls, visited, data_rows, df>>

\* feats = extract_contentinfo_features(content_info)
TestContent ==
    /\ pc = "idle"
    /\ cres = Pending
    /\ cres' = extract_contentinfo_features(cdata)
    /\ UNCHANGED <<gdata, gres, cdata, fs, pc, cat, files, idx, data, row, outs,
                   calls, visited, data_rows, df>>

NextExtract == TestGeneral \/ TestContent

SpecExtract == InitExtract /\ [][NextExtract]_vars

----------------------------------------------------------------------------
(* build_global_dataframe over two category folders.                       *)

\* a record with url, status and a content_info section: every extractor returns
Rec_full ==
    JObj([url |-> JStr(U_ip), content_status |-> JInt(404),
          content_info |-> JObj([status_code |-> JInt(200), destination |-> JStr(U_dest)])])

\* a record on which extract_general_features raises at line 87
Rec_bad_status ==
    JObj([url |-> JStr(U_plain), content_status |-> JNull])

\* a record on which extract_contentinfo_features raises at line 37
Rec_bad_html ==
    JObj([url |-> JStr(U_plain),
          content_info |-> JObj([title |-> JStr(<<"t">>), html |-> JNull])])

\* a record with none of the keys the extractors read
Rec_bare == JObj([id |-> JInt(7)])

\* the non-empty JSON objects a file can hold
Records == {Rec_full, Rec_bad_status, Rec_bad_html, Rec_bare}

\* what a .json file can hold
FileContents ==
    {Unreadable, Blank, Invalid,
     JsonFile(JNull), JsonFile(JList(<<JInt(1)>>)), JsonFile(EmptyObj)}
    \cup {JsonFile(r) : r \in Records}

\* the extractors are pure: each as the map from the arguments
\* build_global_dataframe can pass it to what the call does
GeneralOn == [a \in Records |-> extract_general_features(a)]

ContentOn ==
    [a \in {Section(r.f, "content_info") : r \in Records} |->
        extract_contentinfo_features(a)]

\* extract_hostinfo_features(host_info): returns its feature map, or raises
HostOutcomes == {Ok([host_feature |-> 1]), Raise("KeyError", EmptyDict)}

\* extract_additional_features(additional): returns its feature map, or raises
AdditionalOutcomes == {Ok([additional_feature |-> 1]), Raise("KeyError", EmptyDict)}

\* the listings a folder can have: the first n entries of AllNames
Listings == {SubSeq(AllNames, 1, n) : n \in 0..Len(AllNames)}

Folders == [exists : BOOLEAN, listing : Listings]

Init ==
    /\ fs \in [{"benign", "malicious"} -> Folders]
    /\ \A c \in DOMAIN fs : ~fs[c].exists => fs[c].listing = <<>>
    /\ Len(fs["benign"].listing) + Len(fs["malicious"].listing) <= MaxFiles
    /\ pc = "folder"
    /\ cat = 1
    /\ files = <<>>
    /\ idx = 0
    /\ data = JNull
    /\ row = EmptyDict
    /\ outs = NoOuts
    /\ calls = <<>>
    /\ visited = <<>>
    /\ data_rows = <<>>
    /\ df = NoFrame
    /\ gdata = EmptyObj
    /\ gres = Pending
    /\ cdata = EmptyObj
    /\ cres = Pending

harness == <<gdata, gres, cdata, cres>>

\* lines 78-85: next category; a missing folder is skipped, an existing one listed
EnterFolder ==
    /\ pc = "folder"
    /\ cat <= Len(categories)
    /\ IF ~fs[categories[cat].folder].exists
       THEN /\ cat' = cat + 1
            /\ UNCHANGED <<pc, files, idx>>
       ELSE /\ files' = JsonFiles(fs[categories[cat].folder].listing)
            /\ idx' = 1
            /\ pc' = "file"
            /\ UNCHANGED cat
    /\ UNCHANGED <<harness, fs, data, row, outs, calls, visited, data_rows, df>>

\* the for loop over files is exhausted: on to the next category
LeaveFolder ==
    /\ pc = "file"
    /\ idx > Len(files)
    /\ cat' = cat + 1
    /\ pc' = "folder"
    /\ UNCHANGED <<harness, fs, files, idx, data, row, outs, calls, visited,
                   data_rows, df>>

\* lines 87-97: load the file; skip it when the result is falsy or not a dict
LoadFile ==
    /\ pc = "file"
    /\ idx <= Len(files)
    /\ \E file \in FileContents :
          LET r == load_json_file(file) IN
          /\ visited' = Append(visited,
                 [category |-> categories[cat].category_name,
                  filename |-> files[idx],
                  is_object |-> file.readable /\ ~file.blank /\ file.valid
                                /\ file.value.t = "obj"])
          /\ IF r.raised
             THEN /\ pc' = "crashed"
                  /\ UNCHANGED <<idx, data>>
             ELSE /\ data' = r.value
                  /\ IF ~Truthy(r.value) \/ r.value.t # "obj"
                     THEN idx' = idx + 1 /\ UNCHANGED pc
                     ELSE pc' = "general" /\ UNCHANGED idx
    /\ row' = EmptyDict
    /\ outs' = NoOuts
    /\ calls' = <<>>
    /\ UNCHANGED <<harness, fs, cat, files, data_rows, df>>

\* row.update(safe_call(func, arg, ...)) for the extractor named e, followed by pc = nxt
Merge(e, func, arg, nxt) ==
    LET r == safe_call(func, arg) IN
    /\ outs' = [outs EXCEPT ![e] = raw_call(func, arg)]
    /\ calls' = Append(calls, e)
    /\ IF r.raised
       THEN pc' = "crashed" /\ UNCHANGED row
       ELSE pc' = nxt /\ row' = RowUpdate(row, r.value)
    /\ UNCHANGED <<harness, fs, cat, files, idx, data, visited, data_rows, df>>

\* line 100
MergeGeneral ==
    /\ pc = "general"
    /\ Merge("general", GeneralOn, data, "host")

\* lines 103, 107
MergeHost ==
    /\ pc = "host"
    /\ \E h \in HostOutcomes :
          Merge("host", [a \in {Section(data.f, "host_info")} |-> h],
                Section(data.f, "host_info"), "content")

\* lines 104, 108
MergeContent ==
    /\ pc = "content"
    /\ Merge("content", ContentOn, Section(data.f, "content_info"), "additional")

\* lines 105, 109
MergeAdditional ==
    /\ pc = "additional"
    /\ \E h \in AdditionalOutcomes :
          Merge("additional", [a \in {Section(data.f, "additional")} |-> h],
                Section(data.f, "additional"), "append")

\* lines 112-116: metadata, append, next file
AppendRow ==
    /\ pc = "append"
    /\ data_rows' = Append(data_rows,
           WithMetadata(row, categories[cat].label, files[idx],
                        categories[cat].category_name))
    /\ idx' = idx + 1
    /\ pc' = "file"
    /\ UNCHANGED <<harness, fs, cat, files, data, row, outs, calls, visited, df>>

\* lines 118-123: build the table, print the summary, return
Finish ==
    /\ pc = "folder"
    /\ cat > Len(categories)
    /\ df' = BuildFrame(data_rows)
    /\ pc' = "done"
    /\ data' = JNull
    /\ row' = EmptyDict
    /\ outs' = NoOuts
    /\ calls' = <<>>
    /\ UNCHANGED <<harness, fs, cat, files, idx, visited, data_rows>>

Next ==
    \/ EnterFolder
    \/ LeaveFolder
    \/ LoadFile
    \/ MergeGeneral
    \/ MergeHost
    \/ MergeContent
    \/ MergeAdditional
    \/ AppendRow
    \/ Finish

Spec == Init /\ [][Next]_vars

\* the interpreter runs the single thread until the function returns
FairSpec == Spec /\ WF_vars(Next)


----------------------------------------------------------------------------
(* Properties.                                                             *)

\* the feature names extract_general_features assigns, lines 40-114
GeneralKeys ==
    {"url_length", "scheme_http", "scheme_https", "path_length", "query_length",
     "num_path_segments", "num_query_params", "has_query", "has_file_extension",
     "file_extension_len", "has_subdomain", "subdomain_length",
     "num_subdomain_levels", "contains_random_subdomain", "num_digits_in_url",
     "num_special_chars", "contains_ip_in_url", "contains_encoded_chars",
     "contains_suspicious_keyword", "digit_ratio", "special_char_ratio",
     "dns_resolves", "dns_error", "content_status", "is_http_ok",
     "is_http_redirect", "is_http_client_error", "is_http_server_error",
     "is_complex_url", "is_suspicious_dns_or_status", "tech_info_count",
     "has_tech_info"}

\* the feature names extract_contentinfo_features assigns, lines 33-111
ContentKeys ==
    {"status_code", "has_error", "title_length", "has_html", "html_length",
     "contains_loader_text", "contains_script_tag", "contains_iframe",
     "contains_form", "num_links", "num_scripts", "url_length", "num_subdomains",
     "uses_https", "contains_ip_in_url", "contains_encoded_chars",
     "is_arweave_host", "num_requests", "num_responses", "has_cloudflare",
     "has_aws_cloudfront", "has_tencent_cos", "num_js_files", "num_css_files",
     "num_html_files", "has_gzip_encoding", "has_csp_header", "num_unique_md5",
     "avg_file_size_class", "num_long_lines_files", "num_ascii_files",
     "is_suspicious_loader_page", "is_heavy_page"}

\* the features whose value is a float
FloatKeys == {"digit_ratio", "special_char_ratio", "avg_file_size_class"}

\* the feature k of the map f is 0 (or 0.0)
IsZero(f, k) == IF k \in FloatKeys THEN f[k].num = 0 ELSE f[k] = 0

\* the call under test has been made / has returned a feature map
GeneralCalled == gres.exc # "pending"
ContentCalled == cres.exc # "pending"
GeneralReturned == GeneralCalled /\ ~gres.raised
ContentReturned == ContentCalled /\ ~cres.raised

\* a row has just been appended for the record in data: the four calls are in
\* outs, the row is the last of data_rows
RowAppended == pc = "file" /\ Len(calls) = 4 /\ idx > 1

NewRow == data_rows[Len(data_rows)]

\* what safe_call handed to row.update for the extractor e of the current record
Returned(e) == IF outs[e].raised THEN EmptyDict ELSE outs[e].value

MetadataKeys == {"label", "filename", "category"}

\* the position in ExtractorOrder of the last extractor that returned the key k
LastWriter(k) ==
    CHOOSE i \in 1..4 :
        /\ k \in DOMAIN Returned(ExtractorOrder[i])
        /\ \A j \in (i + 1)..4 : k \notin DOMAIN Returned(ExtractorOrder[j])

\* the (category, filename) pairs of a sequence of visits or of rows
Names(s) == [i \in 1..Len(s) |-> <<s[i].category, s[i].filename>>]

\* the visits build_global_dataframe owes a category: the .json names of its
\* folder in listing order, none when the folder is missing
VisitsOwed(c) ==
    IF fs[c.folder].exists
    THEN [i \in 1..Len(JsonFiles(fs[c.folder].listing)) |->
             <<c.category_name, JsonFiles(fs[c.folder].listing)[i]>>]
    ELSE <<>>

ExpectedVisits == VisitsOwed(categories[1]) \o VisitsOwed(categories[2])

IsPrefix(s, t) == Len(s) <= Len(t) /\ s = SubSeq(t, 1, Len(s))

\* C1: when an extractor raises on a record, the other three are still called, the
\* row is appended, it holds every key the non-failing extractors returned with
\* the value each returned, and the failing extractor contributes no key, not even
\* one it assigned before the fault.
C1_FailingExtractorIsolated ==
    (RowAppended /\ \E e \in DOMAIN outs : outs[e].raised) =>
        /\ calls = ExtractorOrder
        /\ \A e \in DOMAIN outs :
              ~outs[e].raised =>
                 \A k \in DOMAIN outs[e].value :
                    k \in DOMAIN NewRow /\ NewRow[k] = outs[e].value[k]
        /\ \A e \in DOMAIN outs :
              outs[e].raised =>
                 \A k \in DOMAIN outs[e].value :
                    k \in DOMAIN NewRow =>
                       \E o \in DOMAIN outs :
                          ~outs[o].raised /\ k \in DOMAIN outs[o].value

\* C2: whatever the folders hold, the batch never lets an exception escape, visits
\* the .json files of every existing folder once each in listing order, and
\* eventually reaches the final summary of rows and columns.
C2_BatchCompletes ==
    /\ [](pc # "crashed")
    /\ [](IsPrefix(Names(visited), ExpectedVisits))
    /\ <>(/\ pc = "done"
          /\ Names(visited) = ExpectedVisits
          /\ df.samples = Len(data_rows))

\* C2 witness: the batch has finished with one folder missing, a file skipped and
\* a row built although extract_general_features raised on its record
C2_Witness ==
    /\ pc = "done"
    /\ \E c \in DOMAIN fs : ~fs[c].exists
    /\ \E i \in 1..Len(visited) : ~visited[i].is_object
    /\ \E i \in 1..Len(data_rows) : "scheme_http" \notin DOMAIN data_rows[i]
    /\ df.samples = Len(data_rows)

\* C3: when the batch has finished, the rows are exactly the files whose content
\* parsed to a JSON object, one row each in visiting order, and no other file has
\* a row.
C3_OneRowPerObject ==
    pc = "done" =>
        Names(data_rows) = Names(SelectSeq(visited, LAMBDA v : v.is_object))

\* C4: extract_general_features never raises, whatever the type of each field; a
\* url that is not a str counts as the empty str and a content_status that does
\* not convert to an integer gives content_status = 0.
C4_GeneralTotal ==
    GeneralCalled =>
        /\ ~gres.raised
        /\ ("url" \in DOMAIN gdata.f /\ gdata.f.url.t # "str") =>
               gres.value.url_length = 0
        /\ ("content_status" \in DOMAIN gdata.f
               /\ PyInt(gdata.f.content_status).raised) =>
               gres.value.content_status = 0

\* C5: extract_contentinfo_features never raises when fields are absent or null
\* and when a HAR entry lacks, or has null for, its response, its headers or a
\* header's key or value; a missing har or responses counts as an empty sequence.
C5_ContentTotal ==
    ContentCalled =>
        /\ ~cres.raised
        /\ "har" \notin DOMAIN cdata.f => cres.value.num_requests = 0
        /\ "responses" \notin DOMAIN cdata.f => cres.value.num_responses = 0

\* C6: each extractor returns the same fixed set of feature names on every input
\* on which it returns, and on the empty object it returns that set with every
\* value 0.
C6_FixedVocabulary ==
    /\ GeneralReturned => DOMAIN gres.value = GeneralKeys
    /\ ContentReturned => DOMAIN cres.value = ContentKeys
    /\ (GeneralCalled /\ gdata = EmptyObj) =>
           /\ ~gres.raised
           /\ \A k \in GeneralKeys : IsZero(gres.value, k)
    /\ (ContentCalled /\ cdata = EmptyObj) =>
           /\ ~cres.raised
           /\ \A k \in ContentKeys : IsZero(cres.value, k)

\* C6 witness: extract_general_features has returned on a url with a query and no
\* file extension, and extract_contentinfo_features has returned on {}
C6_Witness ==
    /\ GeneralReturned
    /\ gres.value.url_length > 0
    /\ gres.value.has_query = 1
    /\ gres.value.has_file_extension = 0
    /\ ContentReturned
    /\ cdata = EmptyObj

\* C7: the four HTTP bucket features are 0 or 1 and mutually exclusive; for
\* 200 <= content_status < 600 exactly the one of its hundred is 1, otherwise
\* all are 0; is_suspicious_dns_or_status is 1 exactly when dns_error,
\* is_http_client_error or is_http_server_error is 1.
C7_StatusBuckets ==
    GeneralReturned =>
        LET f == gres.value
            s == f.content_status
        IN  /\ {f.is_http_ok, f.is_http_redirect, f.is_http_client_error,
                f.is_http_server_error} \subseteq {0, 1}
            /\ f.is_http_ok + f.is_http_redirect + f.is_http_client_error
                  + f.is_http_server_error = B2I(200 <= s /\ s < 600)
            /\ f.is_http_ok = B2I(200 <= s /\ s < 300)
            /\ f.is_http_redirect = B2I(300 <= s /\ s < 400)
            /\ f.is_http_client_error = B2I(400 <= s /\ s < 500)
            /\ f.is_http_server_error = B2I(500 <= s /\ s < 600)
            /\ f.is_suspicious_dns_or_status =
                  B2I(f.dns_error = 1 \/ f.is_http_client_error = 1
                      \/ f.is_http_server_error = 1)

\* C7 witness: a status on a bucket boundary with a DNS status that is no error
C7_Witness ==
    /\ GeneralReturned
    /\ gres.value.content_status = 400
    /\ gres.value.is_http_client_error = 1
    /\ gres.value.dns_resolves = 1
    /\ gres.value.dns_error = 0
    /\ gres.value.is_suspicious_dns_or_status = 1

\* C8: the appended row is the merge of the four extractor outputs in the order
\* general, host, content, additional, a key returned by several holding the value
\* of the last that returned it, with label, filename and category written last
\* from the folder label, the file name and the category name.
C8_LastWriterWins ==
    RowAppended =>
        /\ DOMAIN NewRow =
              MetadataKeys \cup UNION {DOMAIN Returned(e) : e \in DOMAIN outs}
        /\ \A k \in DOMAIN NewRow \ MetadataKeys :
              NewRow[k] = Returned(ExtractorOrder[LastWriter(k)])[k]
        /\ NewRow.label = categories[cat].label
        /\ NewRow.filename = files[idx - 1]
        /\ NewRow.category = categories[cat].category_name

\* C8 witness: general and content both returned url_length, with different
\* values, and the row holds the content extractor's
C8_Witness ==
    /\ RowAppended
    /\ ~outs["general"].raised
    /\ ~outs["content"].raised
    /\ outs["general"].value.url_length # outs["content"].value.url_length
    /\ NewRow.url_length = outs["content"].value.url_length
    /\ NewRow.label = 0

\* C9: the feature names of extract_general_features and of
\* extract_contentinfo_features are disjoint, so in the merged row every feature
\* of the URL extractor still holds the value computed from the record's url.
C9_DisjointVocabularies ==
    (RowAppended /\ ~outs["general"].raised /\ ~outs["content"].raised) =>
        /\ DOMAIN outs["general"].value \cap DOMAIN outs["content"].value = {}
        /\ \A k \in DOMAIN outs["general"].value :
              NewRow[k] = outs["general"].value[k]

\* C10: digit_ratio and special_char_ratio are the digit and special-character
\* counts over url_length + 1 rounded to 3 decimals; the counts never exceed
\* url_length and both ratios lie in [0, 1].
C10_RatiosInUnitInterval ==
    GeneralReturned =>
        LET f == gres.value
        IN  /\ f.num_digits_in_url <= f.url_length
            /\ f.num_special_chars <= f.url_length
            /\ f.digit_ratio = Round3(f.num_digits_in_url, f.url_length + 1)
            /\ f.special_char_ratio = Round3(f.num_special_chars, f.url_length + 1)
            /\ 0 <= f.digit_ratio.num /\ f.digit_ratio.num <= f.digit_ratio.den
            /\ 0 <= f.special_char_ratio.num
            /\ f.special_char_ratio.num <= f.special_char_ratio.den

\* C10 witness: a url of separators only, with an empty path, whose special
\* character ratio is the largest a url of its length can have
C10_Witness ==
    /\ GeneralReturned
    /\ gres.value.url_length > 1
    /\ gres.value.path_length = 0
    /\ gres.value.num_special_chars = gres.value.url_length
    /\ gres.value.digit_ratio.num = 0
====
